---- MODULE Spec2Model ----
(***************************************************************************)
(* Model of models/frames/buffers/buffer.py: class Buffer, a ring buffer   *)
(* of transition objects with pluggable sampling and batch post-processing.*)
(***************************************************************************)
EXTENDS Integers, Sequences, FiniteSets, TLC

VARIABLES buffer_size,    \* self.buffer_size
          buffer_device,  \* self.buffer_device
          buffer,         \* self.buffer, a list of transitions
          index,          \* self.index
          ret,            \* the last call: its arguments and its outcome
          admitted,       \* transitions admitted since construction or clear()
          cleared         \* whether clear() was ever called

vars == <<buffer_size, buffer_device, buffer, index, ret, admitted, cleared>>

store == <<buffer_size, buffer_device, buffer, index>>

-----------------------------------------------------------------------------
(* Bounds *)

MaxSize == 2        \* largest buffer_size constructed
MaxAdmit == 4       \* transitions admitted between two calls of clear()
MaxBatch == 2       \* largest batch_size requested

-----------------------------------------------------------------------------
(* Transition objects *)

\* Attribute names, in the order transitions list them.
AttrOrder == <<"state", "reward", "note">>

Attrs == {AttrOrder[i] : i \in 1..Len(AttrOrder)}

SeqOf(S) == SelectSeq(AttrOrder, LAMBDA a : a \in S)

Range(s) == {s[i] : i \in 1..Len(s)}

\* The attribute layouts callers build transitions with.
Layouts ==
    { [major |-> {"state"}, sub |-> {"reward"},         custom |-> {}],
      [major |-> {"state"}, sub |-> {"reward"},         custom |-> {"note"}],
      [major |-> {"state"}, sub |-> {"reward", "note"}, custom |-> {}] }

\* The rewards callers store.
Rewards == {0, 1}

\* A transition as the caller hands it to append: no identity yet, wherever
\* the caller built it.
Candidates ==
    { [major |-> l.major, sub |-> l.sub, custom |-> l.custom,
       val |-> v, device |-> "caller", id |-> 0] :
      l \in Layouts, v \in Rewards }

\* transition.keys(): major, then sub, then custom attribute names.
keys(tr) == SeqOf(tr.major) \o SeqOf(tr.sub) \o SeqOf(tr.custom)

\* transition.has_keys(names)
has_keys(tr, names) == \A k \in Range(names) : k \in Range(keys(tr))

\* transition.to(device)
to(tr, device) == [tr EXCEPT !.device = device]

\* required_attrs values callers pass (the first plays the default).
RequiredAttrs == { <<"state", "reward">>, <<"state", "reward", "note">> }

-----------------------------------------------------------------------------
(* The last call *)

NoTransition ==
    [major |-> {}, sub |-> {}, custom |-> {}, val |-> 0,
     device |-> "none", id |-> 0]

\* Python's None where a list or a name is expected.
None == <<"None">>

\* Buffer(bsize, device): the fields __init__ sets.
Buffer(bsize, device) ==
    [buffer_size |-> bsize, buffer_device |-> device, buffer |-> <<>>,
     index |-> 0]

NoBuffer == [Buffer(0, "none") EXCEPT !.index = -1]

NoCall ==
    [op |-> "init", outcome |-> "ok", error |-> "none", copy |-> NoBuffer,
     transition |-> NoTransition, required_attrs |-> <<>>, position |-> -1,
     sample_method |-> "none", batch_size |-> 0, concatenate |-> TRUE,
     device |-> "None", sample_attrs |-> None,
     additional_concat_attrs |-> None,
     slots |-> <<>>, batch |-> <<>>, real_num |-> 0, result |-> <<>>]

-----------------------------------------------------------------------------
(* Sampling strategies: each yields the set of outcomes random can produce *)

\* Sequences of k slots of a list of n items (slots count from 1 here).
SlotSeqs(n, k) == [1..k -> 1..n]

\* random.sample(range(n), k): k distinct slots in any order.
DistinctSlotSeqs(n, k) ==
    {s \in SlotSeqs(n, k) : \A i, j \in 1..k : i # j => s[i] # s[j]}

Pick(buf, slots) == [i \in 1..Len(slots) |-> buf[slots[i]]]

Sampled(buf, slots, real_num) ==
    [error |-> "none", slots |-> slots, batch |-> Pick(buf, slots),
     real_num |-> real_num]

SampleError(error) ==
    [error |-> error, slots |-> <<>>, batch |-> <<>>, real_num |-> 0]

\* As sample_method_random_unique, but drawing with replacement.
sample_method_random_unique_replacing(buf, batch_size) ==
    IF Len(buf) < batch_size
    THEN {Sampled(buf, s, Len(buf)) : s \in SlotSeqs(Len(buf), Len(buf))}
    ELSE {Sampled(buf, s, batch_size) : s \in SlotSeqs(Len(buf), batch_size)}

\* Buffer.sample_method_random_unique(buffer, batch_size)
sample_method_random_unique(buf, batch_size) ==
    IF Len(buf) < batch_size
    THEN {Sampled(buf, s, Len(buf)) : s \in DistinctSlotSeqs(Len(buf), Len(buf))}
    ELSE {Sampled(buf, s, batch_size) :
            s \in DistinctSlotSeqs(Len(buf), batch_size)}

\* As sample_method_random, but never more draws than the list has items.
sample_method_random_capped(buf, batch_size) ==
    LET k == IF Len(buf) < batch_size THEN Len(buf) ELSE batch_size IN
    IF batch_size > 0 /\ Len(buf) = 0
    THEN {SampleError("ValueError: empty range for randint")}
    ELSE {Sampled(buf, s, k) : s \in SlotSeqs(Len(buf), k)}

\* As sample_method_random, but an empty list yields an empty sample.
sample_method_random_silent(buf, batch_size) ==
    IF Len(buf) = 0
    THEN {Sampled(buf, <<>>, batch_size)}
    ELSE {Sampled(buf, s, batch_size) : s \in SlotSeqs(Len(buf), batch_size)}

\* Buffer.sample_method_random(buffer, batch_size)
sample_method_random(buf, batch_size) ==
    IF batch_size > 0 /\ Len(buf) = 0
    THEN {SampleError("ValueError: empty range for randint")}
    ELSE {Sampled(buf, s, batch_size) : s \in SlotSeqs(Len(buf), batch_size)}

\* As sample_method_all, but newest slot first.
sample_method_all_reversed(buf, batch_size) ==
    {Sampled(buf, [i \in 1..Len(buf) |-> Len(buf) + 1 - i], Len(buf))}

\* As sample_method_all, but no more than batch_size items.
sample_method_all_truncated(buf, batch_size) ==
    LET k == IF Len(buf) < batch_size THEN Len(buf) ELSE batch_size IN
    {Sampled(buf, [i \in 1..k |-> i], k)}

\* Buffer.sample_method_all(buffer, _)
sample_method_all(buf, batch_size) ==
    {Sampled(buf, [i \in 1..Len(buf) |-> i], Len(buf))}

\* Names sample_batch is called with; "uniform" names no sample_method_*.
SampleMethods == {"random_unique", "random", "all", "uniform"}

\* hasattr(self, "sample_method_" + name)
HasSampleMethod(name) == name \in {"random_unique", "random", "all"}

\* getattr(self, "sample_method_" + name)(buffer, batch_size)
SampleMethod(name, buf, batch_size) ==
    CASE name = "random_unique" -> sample_method_random_unique(buf, batch_size)
      [] name = "random" -> sample_method_random(buf, batch_size)
      [] name = "all" -> sample_method_all(buf, batch_size)

-----------------------------------------------------------------------------
(* Attribute values and batch post-processing *)

\* Every attribute value of a transition derives from its val; reward is val
\* itself, the other attributes are shifted so that they cannot be confused.
Shift(attr) == CASE attr = "reward" -> 0 [] attr = "note" -> 10 [] OTHER -> 20

NoneValue == [kind |-> "None"]

Scalar(v) == [kind |-> "scalar", v |-> v]

Tensor(rows, device) == [kind |-> "tensor", rows |-> rows, device |-> device]

\* transition[attr]: a dictionary with the one key "obs" holding a 1 x 1
\* tensor for a major attribute, a scalar for any other.
getitem(tr, attr) ==
    IF attr \in tr.major
    THEN [kind |-> "dict",
          obs |-> Tensor(<<<<tr.val + Shift(attr)>>>>, tr.device)]
    ELSE Scalar(tr.val + Shift(attr))

RECURSIVE CatRows(_)
\* torch.cat(tensors, dim=0): the rows of all tensors, in order.
CatRows(tensors) ==
    IF Len(tensors) = 0 THEN <<>>
    ELSE tensors[1].rows \o CatRows(Tail(tensors))

\* As make_tensor_from_batch, but scalars make one row, not one column.
make_tensor_from_batch_row(batch, device, concatenate) ==
    IF Len(batch) = 0 THEN NoneValue
    ELSE IF concatenate
    THEN IF batch[1].kind = "tensor"
         THEN Tensor(CatRows(batch), device)
         ELSE Tensor(<<[i \in 1..Len(batch) |-> batch[i].v]>>, device)
    ELSE [kind |-> "list", items |-> batch]

\* Buffer.make_tensor_from_batch(batch, device, concatenate)
make_tensor_from_batch(batch, device, concatenate) ==
    IF Len(batch) = 0 THEN NoneValue
    ELSE IF concatenate
    THEN IF batch[1].kind = "tensor"
         THEN Tensor(CatRows(batch), device)
         ELSE Tensor([i \in 1..Len(batch) |-> <<batch[i].v>>], device)
    ELSE [kind |-> "list", items |-> batch]

\* An attribute every transition of the batch can be indexed with.
Indexable(batch, attr) ==
    \A i \in 1..Len(batch) : attr \in Range(keys(batch[i]))

\* [item[attr] for item in batch]
Column(batch, attr) == [i \in 1..Len(batch) |-> getitem(batch[i], attr)]

\* The value post_process_batch appends for a major attribute.
MajorValue(batch, attr, device, concatenate) ==
    [kind |-> "dict",
     obs |-> make_tensor_from_batch(
                 [i \in 1..Len(batch) |->
                     [getitem(batch[i], attr).obs EXCEPT !.device = device]],
                 device, concatenate)]

\* The values post_process_batch appends for "*": the keys of batch[0] that
\* are neither major nor sub attributes of it, nor used so far.
WildcardKeys(batch, used_keys) ==
    SelectSeq(keys(batch[1]),
              LAMBDA k : /\ k \notin batch[1].major
                         /\ k \notin batch[1].sub
                         /\ k \notin Range(used_keys))

RECURSIVE ProcessAttrs(_, _, _, _, _, _, _)
\* The loop of post_process_batch over sample_attrs[n..], given the result
\* and the used keys gathered so far.
ProcessAttrs(batch, device, concatenate, sample_attrs, additional_concat_attrs, n, acc) ==
    IF n > Len(sample_attrs) THEN acc
    ELSE
      LET attr == sample_attrs[n]
          concat == concatenate /\ attr \in Range(additional_concat_attrs)
          remain == WildcardKeys(batch, acc.used_keys)
          step ==
            IF attr \in batch[1].major
            THEN [acc EXCEPT
                    !.result = Append(@, MajorValue(batch, attr, device,
                                                    concatenate)),
                    !.used_keys = Append(@, attr)]
            ELSE IF attr \in batch[1].sub
            THEN [acc EXCEPT
                    !.result = Append(@, make_tensor_from_batch(
                                   Column(batch, attr), device, concatenate)),
                    !.used_keys = Append(@, attr)]
            ELSE IF attr = "*"
            THEN [acc EXCEPT
                    !.result = @ \o
                       [i \in 1..Len(remain) |->
                          make_tensor_from_batch(Column(batch, remain[i]),
                                                 device, concat)]]
            ELSE IF ~Indexable(batch, attr)
            THEN [acc EXCEPT !.error = "AttributeError"]
            ELSE [acc EXCEPT
                    !.result = Append(@, make_tensor_from_batch(
                                   Column(batch, attr), device, concat)),
                    !.used_keys = Append(@, attr)]
      IN IF step.error # "none" THEN step
         ELSE ProcessAttrs(batch, device, concatenate, sample_attrs,
                           additional_concat_attrs, n + 1, step)

\* Buffer.post_process_batch(batch, device, concatenate, sample_attrs,
\*                           additional_concat_attrs)
post_process_batch(batch, device, concatenate, sample_attrs, additional_concat_attrs) ==
    IF Len(batch) = 0
    THEN [error |-> "none", used_keys |-> <<>>,
          result |-> [i \in 1..Len(sample_attrs) |-> NoneValue]]
    ELSE ProcessAttrs(batch, device, concatenate, sample_attrs,
                      additional_concat_attrs, 1,
                      [error |-> "none", used_keys |-> <<>>, result |-> <<>>])

-----------------------------------------------------------------------------
(* Buffer *)

\* Buffer.size
size == Len(buffer)

\* Buffer.__init__(buffer_size), buffer_device left at its default
Init ==
    /\ buffer_size \in 1..MaxSize
    /\ buffer_device = "cpu"
    /\ buffer = <<>>
    /\ index = 0
    /\ ret = NoCall
    /\ admitted = 0
    /\ cleared = FALSE

\* As Validate, without the required_attrs check.
Validate_no_required(buf, transition, required_attrs) ==
    IF Len(buf) # 0 /\ keys(buf[1]) # keys(transition)
    THEN "ValueError: different attributes"
    ELSE "none"

\* As Validate, without the comparison with the stored transitions.
Validate_no_schema(buf, transition, required_attrs) ==
    IF ~has_keys(transition, required_attrs)
    THEN "ValueError: missing attributes"
    ELSE "none"

\* As Validate, comparing the major and sub attribute names only.
Validate_ignoring_custom(buf, transition, required_attrs) ==
    IF ~has_keys(transition, required_attrs)
    THEN "ValueError: missing attributes"
    ELSE IF /\ Len(buf) # 0
            /\ SeqOf(buf[1].major) \o SeqOf(buf[1].sub)
                 # SeqOf(transition.major) \o SeqOf(transition.sub)
    THEN "ValueError: different attributes"
    ELSE "none"

\* The checks of append before anything is stored: the error raised, or
\* "none".
Validate(buf, transition, required_attrs) ==
    IF ~has_keys(transition, required_attrs)
    THEN "ValueError: missing attributes"
    ELSE IF Len(buf) # 0 /\ keys(buf[1]) # keys(transition)
    THEN "ValueError: different attributes"
    ELSE "none"

\* The list after "trim buffer to buffer_size".
Trimmed(buf, bsize) ==
    IF Len(buf) > bsize THEN SubSeq(buf, Len(buf) - bsize + 1, Len(buf))
                        ELSE buf

\* As Admit, but the list is never taken to be full.
Admit_never_full(buf, idx, bsize, transition) ==
    [error |-> "none", buffer |-> Append(buf, transition), index |-> idx,
     position |-> Len(buf)]

\* As Admit, but the index does not advance.
Admit_stuck_index(buf, idx, bsize, transition) ==
    LET trimmed == Trimmed(buf, bsize) IN
    IF Len(trimmed) = bsize
    THEN [error |-> "none",
          buffer |-> [trimmed EXCEPT ![idx + 1] = transition],
          index |-> idx, position |-> idx]
    ELSE [error |-> "none", buffer |-> Append(trimmed, transition),
          index |-> idx, position |-> Len(trimmed)]

\* As Admit, but the position is read after the index has advanced.
Admit_position_after(buf, idx, bsize, transition) ==
    LET trimmed == Trimmed(buf, bsize) IN
    IF Len(trimmed) = bsize
    THEN [error |-> "none",
          buffer |-> [trimmed EXCEPT ![idx + 1] = transition],
          index |-> (idx + 1) % bsize, position |-> (idx + 1) % bsize]
    ELSE [error |-> "none", buffer |-> Append(trimmed, transition),
          index |-> idx, position |-> Len(trimmed)]

\* As Admit, but the index does not wrap around.
Admit_no_wrap(buf, idx, bsize, transition) ==
    LET trimmed == Trimmed(buf, bsize) IN
    IF Len(trimmed) = bsize
    THEN [error |-> "none",
          buffer |-> [trimmed EXCEPT ![(idx % bsize) + 1] = transition],
          index |-> idx + 1, position |-> idx]
    ELSE [error |-> "none", buffer |-> Append(trimmed, transition),
          index |-> idx, position |-> Len(trimmed)]

\* As Admit, but a full list drops its first transition and takes the new one
\* at its end.
Admit_shifting(buf, idx, bsize, transition) ==
    LET trimmed == Trimmed(buf, bsize) IN
    IF Len(trimmed) = bsize
    THEN IF idx >= Len(trimmed)
         THEN [error |-> "IndexError", buffer |-> trimmed, index |-> idx,
               position |-> -1]
         ELSE [error |-> "none",
               buffer |-> Append(Tail(trimmed), transition),
               index |-> (idx + 1) % bsize,
               position |-> idx]
    ELSE [error |-> "none", buffer |-> Append(trimmed, transition),
          index |-> idx, position |-> Len(trimmed)]

\* The storing part of append: the list, the index and the position returned
\* (index and position count from 0, as in the source; the list from 1).
Admit(buf, idx, bsize, transition) ==
    LET trimmed == Trimmed(buf, bsize) IN
    IF Len(trimmed) = bsize
    THEN IF idx >= Len(trimmed)
         THEN \* self.buffer[self.index] = transition, past the end
              [error |-> "IndexError", buffer |-> trimmed, index |-> idx,
               position |-> -1]
         ELSE [error |-> "none",
               buffer |-> [trimmed EXCEPT ![idx + 1] = transition],
               index |-> (idx + 1) % bsize,
               position |-> idx]
    ELSE [error |-> "none",
          buffer |-> Append(trimmed, transition),
          index |-> idx,
          position |-> Len(trimmed)]

\* Buffer.append(transition, required_attrs)
append ==
    \E cand \in Candidates, required_attrs \in RequiredAttrs :
      LET call == [NoCall EXCEPT !.op = "append", !.transition = cand,
                                 !.required_attrs = required_attrs]
          transition == [to(cand, buffer_device) EXCEPT !.id = admitted + 1]
          invalid == Validate(buffer, transition, required_attrs)
          stored == Admit(buffer, index, buffer_size, transition)
      IN
      IF invalid # "none"
      THEN /\ ret' = [call EXCEPT !.outcome = "error", !.error = invalid]
           /\ UNCHANGED <<store, admitted, cleared>>
      ELSE /\ admitted < MaxAdmit
           /\ buffer' = stored.buffer
           /\ index' = stored.index
           /\ IF stored.error # "none"
              THEN /\ ret' = [call EXCEPT !.outcome = "error",
                                          !.error = stored.error]
                   /\ admitted' = admitted
              ELSE /\ ret' = [call EXCEPT !.position = stored.position]
                   /\ admitted' = admitted + 1
           /\ UNCHANGED <<buffer_size, buffer_device, cleared>>

\* Buffer.clear
clear ==
    /\ buffer' = <<>>
    /\ ret' = [NoCall EXCEPT !.op = "clear"]
    /\ cleared' = TRUE
    /\ admitted' = 0
    /\ UNCHANGED <<buffer_size, buffer_device, index>>

\* As UnknownMethodError, but the message does not carry the name.
UnknownMethodError_unnamed(sample_method) == "RuntimeError"

\* RuntimeError("Cannot find specified sample method: {}".format(name))
UnknownMethodError(sample_method) == "RuntimeError: " \o sample_method

\* What sample_batch returns or raises, recorded as the last call.
SampleReturn(batch_size, concatenate, device, sample_method, sample_attrs, additional_concat_attrs) ==
    LET call == [NoCall EXCEPT !.op = "sample_batch",
                   !.batch_size = batch_size, !.concatenate = concatenate,
                   !.device = device, !.sample_method = sample_method,
                   !.sample_attrs = sample_attrs,
                   !.additional_concat_attrs = additional_concat_attrs]
    IN
    IF ~HasSampleMethod(sample_method)
    THEN ret' = [call EXCEPT !.outcome = "error",
                   !.error = UnknownMethodError(sample_method)]
    ELSE \E s \in SampleMethod(sample_method, buffer, batch_size) :
      LET dev == IF device = "None" THEN buffer_device ELSE device
          attrs == IF sample_attrs = None THEN keys(s.batch[1])
                                          ELSE sample_attrs
          concat_attrs == IF additional_concat_attrs = None THEN <<>>
                          ELSE additional_concat_attrs
      IN
      IF s.error # "none"
      THEN ret' = [call EXCEPT !.outcome = "error", !.error = s.error]
      ELSE IF sample_attrs = None /\ Len(s.batch) = 0
      THEN \* batch[0].keys() on an empty batch
           ret' = [call EXCEPT !.outcome = "error", !.error = "IndexError"]
      ELSE \E post \in {post_process_batch(s.batch, dev, concatenate, attrs,
                                             concat_attrs)} :
        IF post.error # "none"
        THEN ret' = [call EXCEPT !.outcome = "error", !.error = post.error]
        ELSE ret' = [call EXCEPT !.slots = s.slots, !.batch = s.batch,
                       !.real_num = s.real_num, !.result = post.result]

\* As SampleBatch, but the sampled buffer is consumed.
SampleBatch_consuming(batch_size, concatenate, device, sample_method, sample_attrs, additional_concat_attrs) ==
    /\ buffer' = <<>>
    /\ UNCHANGED <<buffer_size, buffer_device, index, admitted, cleared>>
    /\ SampleReturn(batch_size, concatenate, device, sample_method,
                    sample_attrs, additional_concat_attrs)

\* Buffer.sample_batch(batch_size, concatenate, device, sample_method,
\*                      sample_attrs, additional_concat_attrs)
SampleBatch(batch_size, concatenate, device, sample_method, sample_attrs, additional_concat_attrs) ==
    /\ UNCHANGED <<store, admitted, cleared>>
    /\ SampleReturn(batch_size, concatenate, device, sample_method,
                    sample_attrs, additional_concat_attrs)

\* sample_batch(batch_size, sample_method=name), the other arguments left
\* at their defaults.
sample_batch ==
    \E batch_size \in 0..MaxBatch, sample_method \in SampleMethods :
      SampleBatch(batch_size, TRUE, "None", sample_method, None, None)

Next == append \/ clear \/ sample_batch

Spec == Init /\ [][Next]_vars

-----------------------------------------------------------------------------
(* append and clear calls alone: the stores they lead to are those of Spec,
   since sample_batch leaves the store as it is *)

NextStore == append \/ clear

SpecStore == Init /\ [][NextStore]_vars

-----------------------------------------------------------------------------
(* append and clear calls on a buffer whose buffer_size the caller lowers:
   the case "trim buffer to buffer_size" of append is written for *)

\* buffer.buffer_size = c, with 1 <= c < buffer_size
shrink_buffer_size ==
    /\ \E c \in 1..(buffer_size - 1) : buffer_size' = c
    /\ ret' = [NoCall EXCEPT !.op = "shrink"]
    /\ UNCHANGED <<buffer_device, buffer, index, admitted, cleared>>

NextShrink == append \/ clear \/ shrink_buffer_size

SpecShrink == Init /\ [][NextShrink]_vars

-----------------------------------------------------------------------------
(* sample_batch with every argument given, on a buffer some appends filled *)

Devices == {"cpu", "cuda:0"}

\* device arguments of sample_batch
DeviceArgs == {"None", "cuda:0"}

\* sample_attrs arguments of sample_batch
SampleAttrsArgs == {None, <<"reward">>, <<"*">>, <<"state", "note", "*">>}

\* additional_concat_attrs arguments of sample_batch
ConcatAttrsArgs == {None, <<"note">>, <<"*">>}

RECURSIVE Filled(_, _, _)
\* The buffers n admitted appends (required_attrs at its default) leave of a
\* new Buffer(bsize, device): list, index and number admitted.
Filled(bsize, device, n) ==
    IF n = 0 THEN {[buffer |-> <<>>, index |-> 0, admitted |-> 0]}
    ELSE { [buffer |-> Admit(b.buffer, b.index, bsize,
                             [to(c, device) EXCEPT !.id = n]).buffer,
            index |-> Admit(b.buffer, b.index, bsize,
                            [to(c, device) EXCEPT !.id = n]).index,
            admitted |-> n] :
           <<b, c>> \in
             { bc \in Filled(bsize, device, n - 1) \X Candidates :
                 Validate(bc[1].buffer, bc[2], <<"state", "reward">>)
                   = "none" } }

\* Buffer(buffer_size, buffer_device) after up to MaxAdmit appends
InitBatch ==
    /\ buffer_size \in 1..MaxSize
    /\ buffer_device \in Devices
    /\ \E n \in 0..MaxAdmit :
         \E b \in Filled(buffer_size, buffer_device, n) :
           /\ buffer = b.buffer
           /\ index = b.index
           /\ admitted = b.admitted
    /\ ret = NoCall
    /\ cleared = FALSE

\* One call of sample_batch, every argument given.
sample_batch_with ==
    /\ ret.op = "init"
    /\ \E batch_size \in 0..MaxBatch, concatenate \in BOOLEAN,
          device \in DeviceArgs, sample_method \in SampleMethods,
          sample_attrs \in SampleAttrsArgs,
          additional_concat_attrs \in ConcatAttrsArgs :
         SampleBatch(batch_size, concatenate, device, sample_method,
                     sample_attrs, additional_concat_attrs)

NextBatch == sample_batch_with

SpecBatch == InitBatch /\ [][NextBatch]_vars

-----------------------------------------------------------------------------
(* Copying and pickling *)

\* As reduce, but the device is left to the default of __init__.
reduce_default_device(bsize, device) == <<bsize, "cpu">>

\* Buffer.__reduce__: the arguments the class is called with again.
reduce(bsize, device) == <<bsize, device>>

\* copy.copy(buffer) or pickle.loads(pickle.dumps(buffer)): the class is
\* called with the arguments __reduce__ gives.
reconstruct ==
    LET args == reduce(buffer_size, buffer_device) IN
    /\ ret' = [NoCall EXCEPT !.op = "reduce",
                             !.copy = Buffer(args[1], args[2])]
    /\ UNCHANGED <<store, admitted, cleared>>

\* Buffer(buffer_size, buffer_device)
InitDevices ==
    /\ buffer_size \in 1..MaxSize
    /\ buffer_device \in Devices
    /\ buffer = <<>>
    /\ index = 0
    /\ ret = NoCall
    /\ admitted = 0
    /\ cleared = FALSE

NextReduce == append \/ clear \/ reconstruct

SpecReduce == InitDevices /\ [][NextReduce]_vars

-----------------------------------------------------------------------------
(* The sampling strategies called on the buffer's list *)

\* One call strategy(self.buffer, batch_size), as sample_batch makes it.
Strategy(name, batch_size) ==
    LET call == [NoCall EXCEPT !.op = "strategy", !.sample_method = name,
                               !.batch_size = batch_size]
    IN
    /\ UNCHANGED <<store, admitted, cleared>>
    /\ \E s \in SampleMethod(name, buffer, batch_size) :
         IF s.error # "none"
         THEN ret' = [call EXCEPT !.outcome = "error", !.error = s.error]
         ELSE ret' = [call EXCEPT !.slots = s.slots, !.batch = s.batch,
                                  !.real_num = s.real_num]

call_random_unique == \E n \in 0..MaxBatch : Strategy("random_unique", n)

call_random == \E n \in 0..MaxBatch : Strategy("random", n)

call_all == \E n \in 0..MaxBatch : Strategy("all", n)

NextStrategies ==
    append \/ clear \/ call_random_unique \/ call_random \/ call_all

SpecStrategies == Init /\ [][NextStrategies]_vars

-----------------------------------------------------------------------------
(* Properties *)

\* All attribute names of a transition, whatever their category.
AttrNames(tr) == tr.major \cup tr.sub \cup tr.custom

\* The major and sub attribute names of a transition.
MajorSubNames(tr) == tr.major \cup tr.sub

HasAll(tr, names) == Range(names) \subseteq AttrNames(tr)

Ids(buf) == {buf[i].id : i \in 1..Len(buf)}

Min(a, b) == IF a < b THEN a ELSE b

\* The call just made is an append that returned a position.
Appended == ret.op = "append" /\ ret.outcome = "ok"

\* The transition the last append was given, as the buffer stores it.
Stored == [to(ret.transition, buffer_device) EXCEPT !.id = admitted]

\* C1: the list never holds more than buffer_size transitions, whatever
\* sequence of append (admitting or raising), clear and sample_batch calls
\* was made.
C1_CapacityInvariant == Len(buffer) <= buffer_size

C1_Witness ==
    /\ Len(buffer) = buffer_size
    /\ admitted > buffer_size
    /\ ret.op = "sample_batch"

\* C2: every append that is admitted to a full buffer replaces the
\* transition admitted earliest among those stored, in any sequence of
\* append and clear calls.
C2_OldestEvicted ==
    [][ (ret'.op = "append" /\ ret'.outcome = "ok"
            /\ Len(buffer) = buffer_size)
        => \A j \in 1..Len(buffer) :
              buffer[ret'.position + 1].id <= buffer[j].id ]_vars

\* C3: on a buffer never cleared, once more than buffer_size transitions
\* were admitted the list holds exactly the last buffer_size of them.
C3_RingOverwrite ==
    (~cleared /\ admitted > buffer_size)
    => /\ Len(buffer) = buffer_size
       /\ Ids(buffer) = (admitted - buffer_size + 1)..admitted

C3_Witness ==
    /\ ~cleared
    /\ buffer_size >= 2
    /\ admitted >= buffer_size + 2

\* R1, R2, R3 were appended to a new buffer of size 2.
C4_Appended3 == buffer_size = 2 /\ ~cleared /\ admitted = 3

\* The call just made is sample_batch(2, sample_method="all").
C4_SampledAll ==
    /\ ret.op = "sample_batch"
    /\ ret.sample_method = "all"
    /\ ret.batch_size = 2

\* The outcome of sample_batch(2, sample_method="all"): size 2 and the
\* rewards of the two stored transitions, slot 0 first.
C4_RewardsInSlotOrder ==
    /\ ret.outcome = "ok"
    /\ ret.real_num = 2
    /\ ret.result[2] =
         Tensor(<<<<buffer[1].val>>, <<buffer[2].val>>>>, buffer_device)

\* C4 as stated: after R1, R2, R3 slot 0 holds R2 and slot 1 holds R3, and
\* sampling all yields their rewards in that order.
C4_AsStated ==
    C4_Appended3
    => /\ size = 2
       /\ buffer[1].id = 2
       /\ buffer[2].id = 3
       /\ C4_SampledAll => C4_RewardsInSlotOrder

\* C4, amended: after R1, R2, R3 the size is 2, slot 0 holds R3 (R1 was
\* overwritten) and slot 1 holds R2, and sample_batch(2, sample_method="all")
\* yields size 2 with the rewards of R3 then R2.
C4_Scenario ==
    C4_Appended3
    => /\ size = 2
       /\ buffer[1].id = 3
       /\ buffer[2].id = 2
       /\ C4_SampledAll => C4_RewardsInSlotOrder

C4_Witness ==
    /\ C4_Appended3
    /\ C4_SampledAll
    /\ ret.outcome = "ok"
    /\ buffer[1].val # buffer[2].val

\* C5: clear() leaves the list empty and the index at 0.
C5_ClearResets == ret.op = "clear" => (size = 0 /\ index = 0)

\* C6: an append whose transition lacks one of required_attrs raises, and the
\* buffer is as it was before the call.
C6_MissingRequired ==
    [][ (ret'.op = "append"
            /\ ~HasAll(ret'.transition, ret'.required_attrs))
        => (ret'.outcome = "error" /\ store' = store) ]_vars

C6_Witness ==
    /\ ret.op = "append"
    /\ ~HasAll(ret.transition, ret.required_attrs)
    /\ Len(buffer) = buffer_size
    /\ index # 0

C8_SameMajorSub(buf, call) ==
    /\ call.op = "append"
    /\ Len(buf) > 0
    /\ HasAll(call.transition, call.required_attrs)
    /\ \A i \in 1..Len(buf) :
          /\ call.transition.major = buf[i].major
          /\ call.transition.sub = buf[i].sub

\* C8 as stated: such a candidate is admitted whatever its custom attribute
\* names.
C8_AsStated == [][ C8_SameMajorSub(buffer, ret') => ret'.outcome = "ok" ]_vars

\* C8, amended: custom attribute names are compared too: such a candidate is
\* rejected with an error, the buffer left as it was, when its custom
\* attribute names are not those of the first stored transition.
C8_CustomCompared ==
    [][ (/\ C8_SameMajorSub(buffer, ret')
         /\ ret'.transition.custom # buffer[1].custom)
        => (ret'.outcome = "error" /\ store' = store) ]_vars

C8_Witness ==
    /\ C8_SameMajorSub(buffer, ret)
    /\ ret.transition.custom # buffer[1].custom
    /\ ret.error = "ValueError: different attributes"

\* C9: an append that is admitted returns a position within the list, and
\* the list holds the transition just admitted at that position.
C9_ReturnedSlot ==
    Appended
    => /\ 0 <= ret.position
       /\ ret.position < Len(buffer)
       /\ buffer[ret.position + 1] = Stored

C9_Witness ==
    /\ Appended
    /\ ~cleared
    /\ admitted > buffer_size
    /\ ret.position > 0

\* C10: random_unique returns min(batch_size, len) stored transitions, no
\* slot twice, reports that number, and returns every slot exactly once when
\* batch_size >= len.
C10_RandomUnique ==
    (ret.op = "strategy" /\ ret.sample_method = "random_unique")
    => LET k == Min(ret.batch_size, Len(buffer)) IN
       /\ ret.outcome = "ok"
       /\ ret.real_num = k
       /\ Len(ret.batch) = k
       /\ Len(ret.slots) = k
       /\ \A i \in 1..k : /\ ret.slots[i] \in 1..Len(buffer)
                          /\ ret.batch[i] = buffer[ret.slots[i]]
       /\ \A i, j \in 1..k : i # j => ret.slots[i] # ret.slots[j]
       /\ ret.batch_size >= Len(buffer)
            => \A slot \in 1..Len(buffer) :
                  Cardinality({i \in 1..k : ret.slots[i] = slot}) = 1

C10_Witness ==
    /\ ret.op = "strategy"
    /\ ret.sample_method = "random_unique"
    /\ Len(buffer) >= 1
    /\ ret.batch_size > Len(buffer)

\* The call just made is strategy name on the buffer's list.
Called(name) == ret.op = "strategy" /\ ret.sample_method = name

\* C11: on a non-empty list random returns exactly batch_size transitions,
\* each of them stored in the list, and reports batch_size.
C11_Random ==
    (Called("random") /\ Len(buffer) > 0)
    => /\ ret.outcome = "ok"
       /\ ret.real_num = ret.batch_size
       /\ Len(ret.batch) = ret.batch_size
       /\ \A i \in 1..Len(ret.batch) :
             \E slot \in 1..Len(buffer) : ret.batch[i] = buffer[slot]

C11_Witness ==
    /\ Called("random")
    /\ Len(buffer) > 0
    /\ ret.batch_size > Len(buffer)
    /\ Len(ret.batch) = ret.batch_size

\* C12: all returns every stored transition once, in slot order, and reports
\* the length of the list, whatever batch_size is.
C12_All ==
    Called("all")
    => /\ ret.outcome = "ok"
       /\ ret.batch = buffer
       /\ ret.real_num = Len(buffer)

C12_Witness ==
    /\ Called("all")
    /\ Len(buffer) >= 2
    /\ ret.batch_size < Len(buffer)
    /\ index # 0

\* The call just made is sample_batch with the named strategy.
SampledWith(name) == ret.op = "sample_batch" /\ ret.sample_method = name

\* The call returned size 0 and None for every attribute asked for.
ReturnedNones ==
    /\ ret.outcome = "ok"
    /\ ret.real_num = 0
    /\ \A i \in 1..Len(ret.result) : ret.result[i] = NoneValue
    /\ ret.sample_attrs # None => Len(ret.result) = Len(ret.sample_attrs)

\* C13: on an empty buffer sample_batch with random_unique or all returns
\* size 0 and None for every attribute asked for, sample_attrs given or not,
\* and raises nothing.
C13_EmptySample ==
    ((SampledWith("random_unique") \/ SampledWith("all")) /\ Len(buffer) = 0)
    => ReturnedNones

C15_UnknownMethod ==
    [][ (/\ ret'.op = "sample_batch"
         /\ ret'.sample_method \notin {"random_unique", "random", "all"})
        => /\ ret'.outcome = "error"
           /\ ret'.error = "RuntimeError: " \o ret'.sample_method
           /\ ret'.batch = <<>>
           /\ ret'.result = <<>>
           /\ store' = store ]_vars

C15_Witness ==
    /\ SampledWith("uniform")
    /\ ret.outcome = "error"
    /\ Len(buffer) = buffer_size
    /\ index # 0

\* C16: a sample_batch call with one of the three strategies, returning or
\* raising, leaves the list, the index, buffer_size and buffer_device as they
\* were.
C16_SamplingReadsOnly ==
    [][ (/\ ret'.op = "sample_batch"
         /\ ret'.sample_method \in {"random_unique", "random", "all"})
        => store' = store ]_vars

C16_Witness ==
    /\ SampledWith("random")
    /\ ret.outcome = "ok"
    /\ ret.device # "None"
    /\ Len(ret.batch) >= 1
    /\ Len(buffer) = buffer_size
    /\ index # 0

\* The names the call asked to concatenate besides major and sub attributes.
ConcatNames == IF ret.additional_concat_attrs = None THEN {}
               ELSE Range(ret.additional_concat_attrs)

\* The device the call put its tensors on.
ResultDevice == IF ret.device = "None" THEN buffer_device ELSE ret.device

\* The values of attr (not a major one) over the batch, as a column tensor.
Stacked(attr) ==
    Tensor([j \in 1..Len(ret.batch) |-> <<ret.batch[j].val + Shift(attr)>>],
           ResultDevice)

\* The values of attr (not a major one) over the batch, as a list.
Listed(attr) ==
    [kind |-> "list",
     items |-> [j \in 1..Len(ret.batch) |->
                  Scalar(ret.batch[j].val + Shift(attr))]]

\* C17: sample_batch with sample_attrs = ["*"] on a non-empty sample returns
\* one value for every custom attribute of the first sampled transition, and
\* that value is stacked exactly when concatenate is true and the name of the
\* attribute is in additional_concat_attrs, and is the list of the values of
\* the transitions otherwise.
C17_Wildcard ==
    (/\ ret.op = "sample_batch"
     /\ ret.outcome = "ok"
     /\ ret.sample_attrs = <<"*">>
     /\ Len(ret.batch) > 0)
    => LET custom == SeqOf(ret.batch[1].custom) IN
       /\ Len(ret.result) = Len(custom)
       /\ \A i \in 1..Len(custom) :
             ret.result[i] =
               IF ret.concatenate /\ custom[i] \in ConcatNames
               THEN Stacked(custom[i])
               ELSE Listed(custom[i])

\* C18: with n >= 1 transitions stored, sample_batch with all yields for
\* reward an n x 1 tensor whose i-th row is the reward of the i-th stored
\* transition when concatenate is true, and the list of the n rewards in that
\* order when it is false.
C18_RewardColumn ==
    (/\ SampledWith("all")
     /\ ret.outcome = "ok"
     /\ Len(buffer) >= 1
     /\ ret.sample_attrs \in {None, <<"reward">>})
    => LET reward == ret.result[IF ret.sample_attrs = None THEN 2 ELSE 1] IN
       IF ret.concatenate
       THEN /\ reward.kind = "tensor"
            /\ reward.rows = [i \in 1..Len(buffer) |-> <<buffer[i].val>>]
       ELSE /\ reward.kind = "list"
            /\ reward.items = [i \in 1..Len(buffer) |-> Scalar(buffer[i].val)]

C18_Witness ==
    /\ SampledWith("all")
    /\ ret.outcome = "ok"
    /\ ret.concatenate
    /\ ret.sample_attrs = <<"reward">>
    /\ Len(buffer) >= 2
    /\ buffer[1].val # buffer[2].val

\* C19: the buffer rebuilt from what __reduce__ gives has the buffer_size and
\* the buffer_device of the original, an empty list and index 0, and the
\* original is left as it was.
C19_Reconstruction ==
    [][ ret'.op = "reduce"
        => /\ ret'.copy.buffer_size = buffer_size
           /\ ret'.copy.buffer_device = buffer_device
           /\ ret'.copy.buffer = <<>>
           /\ ret'.copy.index = 0
           /\ store' = store ]_vars

C19_Witness ==
    /\ ret.op = "reduce"
    /\ buffer_device # "cpu"
    /\ Len(buffer) = buffer_size
    /\ index # 0

\* C20: the index stays within 0 .. buffer_size - 1 in every state append,
\* clear and sample_batch calls lead to.
C20_IndexInRange == 0 <= index /\ index < buffer_size

C20_Witness ==
    /\ buffer_size >= 2
    /\ ~cleared
    /\ admitted = 2 * buffer_size
    /\ index = 0

-----------------------------------------------------------------------------
(* append on a full list, and after buffer_size was lowered *)

\* The transition an append that returns stores, as it is after the call.
StoredNext == [to(ret'.transition, buffer_device) EXCEPT !.id = admitted']

\* The step is an append call that returned a position.
AppendReturns == ret'.op = "append" /\ ret'.outcome = "ok"

\* C21: an append that returns on a list of exactly buffer_size transitions
\* writes the new transition at the index, leaves every other slot and the
\* length as they were and advances the index by one modulo buffer_size; on
\* a list shorter than buffer_size it puts the transition at the end, leaves
\* the other slots and the index as they were and the list is one longer.
C21_FullStoreAppend ==
    [][ AppendReturns
        => /\ (Len(buffer) = buffer_size)
              => /\ Len(buffer') = Len(buffer)
                 /\ buffer'[index + 1] = StoredNext
                 /\ \A j \in 1..Len(buffer) :
                       j # index + 1 => buffer'[j] = buffer[j]
                 /\ index' = (index + 1) % buffer_size
           /\ (Len(buffer) < buffer_size)
              => /\ buffer' = Append(buffer, StoredNext)
                 /\ index' = index ]_vars

C21_Witness ==
    /\ Appended
    /\ buffer_size >= 2
    /\ admitted > buffer_size
    /\ ret.position >= 1
    /\ cleared

\* The step is an append call that passes both checks of append, made when
\* the list is longer than buffer_size.
ValidAppendAfterShrink ==
    /\ ret'.op = "append"
    /\ Len(buffer) > buffer_size
    /\ Validate(buffer, to(ret'.transition, buffer_device),
                ret'.required_attrs) = "none"

\* C22: when buffer_size was lowered below the length of the list, the next
\* append that passes the checks returns without error, and afterwards the
\* list holds buffer_size transitions and 0 <= index < buffer_size.
C22_ShrinkTrim ==
    [][ ValidAppendAfterShrink
        => /\ ret'.outcome = "ok"
           /\ Len(buffer') = buffer_size'
           /\ 0 <= index' /\ index' < buffer_size' ]_vars

====
